---- MODULE Spec2Model ----
(***************************************************************************)
(* cf_exporter: the fetch orchestrator (fetcher.Fetcher) and the metadata  *)
(* collector (collectors.MetadataCollector).                               *)
(***************************************************************************)
EXTENDS Integers, Sequences, FiniteSets, TLC

VARIABLES
    \* ---- collectors.MetadataCollector (fields of the struct) ----
    organizationMetadataMetric,               \* GaugeVec: set of [labels, value]
    spaceMetadataMetric,                      \* GaugeVec
    applicationMetadataMetric,                \* GaugeVec
    metadataScrapesTotalMetric,               \* Counter
    metadataScrapeErrorsTotalMetric,          \* Counter
    lastMetadataScrapeErrorMetric,            \* Gauge
    lastMetadataScrapeTimestampMetric,        \* Gauge
    lastMetadataScrapeDurationSecondsMetric,  \* Gauge
    \* ---- the arguments of the most recent Collect call ----
    objs,                                     \* *models.CFObjects
    ch,                                       \* what that call sent on ch
    calls,                                    \* number of Collect calls so far
    clock,                                    \* time.Now(), in seconds
    \* ---- fetcher.Fetcher and its Worker ----
    filter,                                   \* worker.filter: the enabled kinds
    workerList,                               \* the worker's task plan (names)
    \* ---- the GetObjects calls in progress, per caller ----
    callers,                                  \* the goroutines calling GetObjects
    pc,                                       \* where each call stands
    stmt,                                     \* next statement of workInit
    start,                                    \* `start := time.Now()`
    sessionErr,                               \* err of NewSessionExt
    result,                                   \* the call's *models.CFObjects
    tasks                                     \* worker.Do: the call's tasks

collectorVars == <<organizationMetadataMetric, spaceMetadataMetric,
                   applicationMetadataMetric, metadataScrapesTotalMetric,
                   metadataScrapeErrorsTotalMetric, lastMetadataScrapeErrorMetric,
                   lastMetadataScrapeTimestampMetric,
                   lastMetadataScrapeDurationSecondsMetric, objs, ch, calls>>

fetcherVars == <<filter, workerList, callers, pc, stmt, start, sessionErr,
                 result, tasks>>

vars == <<collectorVars, clock, fetcherVars>>

-----------------------------------------------------------------------------
(* Bounds *)

MaxCalls == 2
MaxClock == 1
Threads == 2

-----------------------------------------------------------------------------
(* models.CFObjects as the collector reads it *)

NoError == "nil"
SessionError == "SessionError"
TaskError == "TaskError"

\* a relationship lookup `guid, ok := e.Relationships[name].Data.GUID`
NoRel == [ok |-> FALSE, GUID |-> ""]
Rel(g) == [ok |-> TRUE, GUID |-> g]

NameOf(g) == g \o "-name"

LabelMaps(K, V) == UNION {[D -> V] : D \in SUBSET K}

MkOrg(g, l) == [GUID |-> g, Name |-> NameOf(g), Labels |-> l]
MkSpace(g, r, l) == [GUID |-> g, Name |-> NameOf(g), Organization |-> r, Labels |-> l]
MkApp(g, r, l) == [GUID |-> g, Name |-> NameOf(g), Space |-> r, Labels |-> l]

\* the GUID-keyed index of an entity collection
IndexOf(S) == [g \in {e.GUID : e \in S} |-> CHOOSE e \in S : e.GUID = g]

NewCFObjects ==
    [Error |-> NoError, Took |-> 0,
     Organizations |-> {}, OrganizationsMap |-> IndexOf({}),
     Spaces |-> {}, SpacesMap |-> IndexOf({}),
     Applications |-> {}]

MkObjects(err, took, orgs, spaces, apps) ==
    [Error |-> err, Took |-> took,
     Organizations |-> orgs, OrganizationsMap |-> IndexOf(orgs),
     Spaces |-> spaces, SpacesMap |-> IndexOf(spaces),
     Applications |-> apps]

-----------------------------------------------------------------------------
(* prometheus.GaugeVec: one child per label tuple *)

\* vec.With(labels).Set(v) for every label tuple of Ls
VecSetAll(vec, Ls, v) ==
    {s \in vec : s.labels \notin Ls} \cup {[labels |-> l, value |-> v] : l \in Ls}

\* vec.Collect(ch): every child of the vector is sent
VecCollect(vec) == vec

-----------------------------------------------------------------------------
(* MetadataCollector.reportMetadataMetrics *)

OrgLabelTuples(o) ==
    UNION {{[organization_id |-> org.GUID, organization_name |-> org.Name,
             label_key |-> key, label_value |-> org.Labels[key]]
            : key \in DOMAIN org.Labels} : org \in o.Organizations}

\* the organization a space resolves to: [ok, org]
ResolveOrg(o, space) ==
    LET r == space.Organization IN
    IF ~r.ok THEN [ok |-> FALSE]
    ELSE IF r.GUID \notin DOMAIN o.OrganizationsMap THEN [ok |-> FALSE]
    ELSE [ok |-> TRUE, org |-> o.OrganizationsMap[r.GUID]]

\* the space and organization an application resolves to: [ok, space, org]
ResolveSpace(o, app) ==
    LET r == app.Space IN
    IF ~r.ok THEN [ok |-> FALSE]
    ELSE IF r.GUID \notin DOMAIN o.SpacesMap THEN [ok |-> FALSE]
    ELSE LET space == o.SpacesMap[r.GUID]
             ro == ResolveOrg(o, space)
         IN IF ~ro.ok THEN [ok |-> FALSE]
            ELSE [ok |-> TRUE, space |-> space, org |-> ro.org]

SpaceLabelTuples(o) ==
    UNION {LET ro == ResolveOrg(o, space) IN
           IF ~ro.ok THEN {}
           ELSE {[space_id |-> space.GUID, space_name |-> space.Name,
                  organization_id |-> ro.org.GUID, organization_name |-> ro.org.Name,
                  label_key |-> key, label_value |-> space.Labels[key]]
                 : key \in DOMAIN space.Labels}
           : space \in o.Spaces}

AppTuple(app, org, space, key, value) ==
    [application_id |-> app.GUID, application_name |-> app.Name,
     organization_id |-> org.GUID, organization_name |-> org.Name,
     space_id |-> space.GUID, space_name |-> space.Name,
     label_key |-> key, label_value |-> value]

OrgPrefix(key) == "org_" \o key
SpacePrefix(key) == "space_" \o key

AppOwnTuples(app, org, space) ==
    {AppTuple(app, org, space, key, app.Labels[key]) : key \in DOMAIN app.Labels}
AppOrgTuples(app, org, space) ==
    {AppTuple(app, org, space, OrgPrefix(key), org.Labels[key]) : key \in DOMAIN org.Labels}
AppSpaceTuples(app, org, space) ==
    {AppTuple(app, org, space, SpacePrefix(key), space.Labels[key]) : key \in DOMAIN space.Labels}

AppLabelTuples(o) ==
    UNION {LET rs == ResolveSpace(o, app) IN
           IF ~rs.ok THEN {}
           ELSE AppOwnTuples(app, rs.org, rs.space)
                \cup AppOrgTuples(app, rs.org, rs.space)
                \cup AppSpaceTuples(app, rs.org, rs.space)
           : app \in o.Applications}

\* the three vectors after the walk, what the walk sent on ch, and its error
reportMetadataMetrics(o) ==
    LET orgVec == VecSetAll(organizationMetadataMetric, OrgLabelTuples(o), 1)
        spaceVec == VecSetAll(spaceMetadataMetric, SpaceLabelTuples(o), 1)
        appVec == VecSetAll(applicationMetadataMetric, AppLabelTuples(o), 1)
    IN [organization |-> orgVec, space |-> spaceVec, application |-> appVec,
        sentOrganization |-> VecCollect(orgVec),
        sentSpace |-> VecCollect(spaceVec),
        sentApplication |-> VecCollect(appVec),
        err |-> NoError]

\* nothing walked: the branch of Collect that skips reportMetadataMetrics
NoReport ==
    [organization |-> organizationMetadataMetric, space |-> spaceMetadataMetric,
     application |-> applicationMetadataMetric,
     sentOrganization |-> {}, sentSpace |-> {}, sentApplication |-> {},
     err |-> NoError]

-----------------------------------------------------------------------------
(* MetadataCollector.Collect *)

\* a Collect that never looks at objs.Error
TopLevelErrorIgnored(o) == FALSE

\* `if objs.Error != nil`
TopLevelErrorSet(o) == o.Error # NoError

\* a Collect that forgets the attempt counter
ScrapesTotalKept(n) == n

\* c.metadataScrapesTotalMetric.Inc()
ScrapesTotalInc(n) == n + 1

\* c.lastMetadataScrapeDurationSecondsMetric.Set(objs.Took)
DurationOf(o) == o.Took

Collect(o) ==
    LET walked == ~TopLevelErrorSet(o)
        rep == IF walked THEN reportMetadataMetrics(o) ELSE NoReport
        failed == TopLevelErrorSet(o) \/ rep.err # NoError
        errorMetric == IF failed THEN 1 ELSE 0
        errorsTotal == IF failed THEN metadataScrapeErrorsTotalMetric + 1
                       ELSE metadataScrapeErrorsTotalMetric
        scrapesTotal == ScrapesTotalInc(metadataScrapesTotalMetric)
    IN /\ organizationMetadataMetric' = rep.organization
       /\ spaceMetadataMetric' = rep.space
       /\ applicationMetadataMetric' = rep.application
       /\ metadataScrapeErrorsTotalMetric' = errorsTotal
       /\ metadataScrapesTotalMetric' = scrapesTotal
       /\ lastMetadataScrapeErrorMetric' = errorMetric
       /\ lastMetadataScrapeTimestampMetric' = clock
       /\ lastMetadataScrapeDurationSecondsMetric' = DurationOf(o)
       /\ ch' = [organization |-> rep.sentOrganization,
                 space |-> rep.sentSpace,
                 application |-> rep.sentApplication,
                 scrape_errors_total |-> errorsTotal,
                 scrapes_total |-> scrapesTotal,
                 last_scrape_error |-> errorMetric,
                 last_scrape_timestamp |-> clock,
                 last_scrape_duration_seconds |-> DurationOf(o)]
       /\ objs' = o
       /\ calls' = calls + 1

NoSent ==
    [organization |-> {}, space |-> {}, application |-> {},
     scrape_errors_total |-> 0, scrapes_total |-> 0, last_scrape_error |-> 0,
     last_scrape_timestamp |-> 0, last_scrape_duration_seconds |-> 0]

\* NewMetadataCollector
NewMetadataCollector ==
    /\ organizationMetadataMetric = {}
    /\ spaceMetadataMetric = {}
    /\ applicationMetadataMetric = {}
    /\ metadataScrapesTotalMetric = 0
    /\ metadataScrapeErrorsTotalMetric = 0
    /\ lastMetadataScrapeErrorMetric = 0
    /\ lastMetadataScrapeTimestampMetric = 0
    /\ lastMetadataScrapeDurationSecondsMetric = 0
    /\ objs = NewCFObjects
    /\ ch = NoSent
    /\ calls = 0

-----------------------------------------------------------------------------
(* The snapshots handed to Collect in SpecCollect *)

Tooks == {1, 2}

OrgSets == {{}} \cup {{MkOrg("o1", l)} : l \in LabelMaps({"team"}, {"x"})}

\* s1 resolves or not; s2 and a2, when present, are well-formed siblings
Space1Sets ==
    {{}, {MkSpace("s1", NoRel, [k \in {"team"} |-> "x"])}}
    \cup {{MkSpace("s1", Rel("o1"), l)} : l \in LabelMaps({"team"}, {"x"})}
Space2 == MkSpace("s2", Rel("o1"), [k \in {"team"} |-> "x"])

App1Sets ==
    {{}, {MkApp("a1", NoRel, [k \in {"team"} |-> "x"])},
         {MkApp("a1", Rel("s9"), [k \in {"team"} |-> "x"])}}
    \cup {{MkApp("a1", Rel("s1"), l)} :
             l \in LabelMaps({"team", "org_team"}, {"x"}) \ {[k \in {"team"} |-> "x"]}}
App2 == MkApp("a2", Rel("s2"), [k \in {"team"} |-> "x"])

FullOrgs == {MkOrg("o1", [k \in {"team"} |-> "x"])}
FullSpaces == {MkSpace("s1", Rel("o1"), [k \in {"team"} |-> "x"]), Space2}
FullApps == {MkApp("a1", Rel("s1"), [k \in {"org_team"} |-> "x"]), App2}

\* snapshots without a top-level error
OkSnapshots ==
    {MkObjects(NoError, t, o, s1 \cup sib[1], a1 \cup sib[2]) :
        t \in Tooks, o \in OrgSets, s1 \in Space1Sets, a1 \in App1Sets,
        sib \in {<<{}, {}>>, <<{Space2}, {App2}>>}}

\* snapshots with a top-level error: nothing fetched (session failure) or all of
\* it fetched but for a failed category
ErrSnapshots ==
    {MkObjects(SessionError, t, {}, {}, {}) : t \in Tooks}
    \cup {MkObjects(TaskError, t, FullOrgs, FullSpaces, a) :
             t \in Tooks, a \in {{}, FullApps}}

Snapshots == OkSnapshots \cup ErrSnapshots

-----------------------------------------------------------------------------
(* filters.Filter and fetcher.Worker *)

Kinds ==
    {"applications", "organizations", "spaces", "domains", "routes",
     "security_groups", "stacks", "buildpacks", "tasks", "services",
     "service_instances", "service_plans", "isolation_segments",
     "service_bindings", "service_route_bindings", "events", "metadata"}

\* filter.Enabled(kind)
Enabled(f, kind) == kind \in f

\* the "any of these kinds" test of PushIf
FilterAny(f, kinds) == \E k \in kinds : Enabled(f, k)

\* worker.Reset()
Reset == <<>>

\* worker.Push(name, handler)
Push(list, name) == Append(list, name)

\* worker.PushIf(name, handler, kinds...)
PushIf(list, f, name, kinds) == IF FilterAny(f, kinds) THEN Push(list, name) ELSE list

-----------------------------------------------------------------------------
(* Fetcher.workInit, statement by statement *)

St(op, name, kinds, branch) == [op |-> op, name |-> name, kinds |-> kinds, branch |-> branch]

WorkInitStmts ==
    << St("Reset", "", {}, "both"),
       St("Push", "info", {}, "both"),
       St("Push", "organizations", {}, "then"),
       St("Push", "spaces", {}, "then"),
       St("Push", "applications", {}, "then"),
       St("PushIf", "organizations", {"applications", "organizations"}, "else"),
       St("PushIf", "spaces", {"applications", "spaces"}, "else"),
       St("PushIf", "applications", {"applications"}, "else"),
       St("PushIf", "org_quotas", {"organizations"}, "both"),
       St("PushIf", "space_quotas", {"spaces"}, "both"),
       St("PushIf", "domains", {"domains"}, "both"),
       St("PushIf", "process", {"applications"}, "both"),
       St("PushIf", "routes", {"routes"}, "both"),
       St("PushIf", "route_services", {"routes"}, "both"),
       St("PushIf", "security_groups", {"security_groups"}, "both"),
       St("PushIf", "stacks", {"stacks"}, "both"),
       St("PushIf", "buildpacks", {"buildpacks"}, "both"),
       St("PushIf", "tasks", {"tasks"}, "both"),
       St("PushIf", "service_brokers", {"services"}, "both"),
       St("PushIf", "service_offerings", {"services"}, "both"),
       St("PushIf", "service_instances", {"service_instances"}, "both"),
       St("PushIf", "service_plans", {"service_plans"}, "both"),
       St("PushIf", "segments", {"isolation_segments"}, "both"),
       St("PushIf", "service_bindings", {"service_bindings"}, "both"),
       St("PushIf", "service_route_bindings", {"service_route_bindings"}, "both"),
       St("PushIf", "users", {"events"}, "both"),
       St("PushIf", "events", {"events"}, "both") >>

\* `if c.worker.filter.Enabled(filters.Metadata) {...} else {...}`
BranchTaken(f, branch) ==
    \/ branch = "both"
    \/ branch = "then" /\ Enabled(f, "metadata")
    \/ branch = "else" /\ ~Enabled(f, "metadata")

\* the statements workInit executes under filter f, in order
StmtsFor(f) == SelectSeq(WorkInitStmts, LAMBDA st : BranchTaken(f, st.branch))

ExecStmt(list, f, st) ==
    IF st.op = "Reset" THEN Reset
    ELSE IF st.op = "Push" THEN Push(list, st.name)
    ELSE PushIf(list, f, st.name, st.kinds)

RECURSIVE RunStmts(_, _, _)
RunStmts(list, f, stmts) ==
    IF stmts = <<>> THEN list
    ELSE RunStmts(ExecStmt(list, f, Head(stmts)), f, Tail(stmts))

\* the plan one uninterrupted workInit leaves in the worker
workInit(list, f) == RunStmts(list, f, StmtsFor(f))

-----------------------------------------------------------------------------
(* Worker.Do: the scheduler *)

\* a scheduler without dependencies
DependsOnNothing(name) == {}

\* the declared dependencies of a category
DependsOn(name) ==
    IF name = "spaces" THEN {"organizations"}
    ELSE IF name = "applications" THEN {"spaces"}
    ELSE {}

Terminal == {"ok", "failed", "skipped"}

NewTasks(list) ==
    [i \in 1..Len(list) |-> [name |-> list[i], state |-> "pending", invoked |-> FALSE]]

\* the tasks of ts that task i waits for
DepsOf(ts, i) == {j \in 1..Len(ts) : ts[j].name \in DependsOn(ts[i].name)}

Eligible(ts, i) ==
    /\ ts[i].state = "pending"
    /\ \A j \in DepsOf(ts, i) : ts[j].state \in Terminal

DepFailed(ts, i) == \E j \in DepsOf(ts, i) : ts[j].state # "ok"

InFlight(ts) == Cardinality({i \in 1..Len(ts) : ts[i].state = "running"})

AllTerminal(ts) == \A i \in 1..Len(ts) : ts[i].state \in Terminal

\* the aggregate error Do returns
AggregateError(ts) ==
    IF \E i \in 1..Len(ts) : ts[i].state = "failed" THEN TaskError ELSE NoError

-----------------------------------------------------------------------------
(* the fetch functions: what a successful category fetch writes *)

RemoteOrgs == FullOrgs
RemoteSpaces == FullSpaces
RemoteApps == FullApps

FetchInto(r, name) ==
    IF name = "organizations"
    THEN [r EXCEPT !.Organizations = RemoteOrgs, !.OrganizationsMap = IndexOf(RemoteOrgs)]
    ELSE IF name = "spaces"
    THEN [r EXCEPT !.Spaces = RemoteSpaces, !.SpacesMap = IndexOf(RemoteSpaces)]
    ELSE IF name = "applications"
    THEN [r EXCEPT !.Applications = RemoteApps]
    ELSE r

-----------------------------------------------------------------------------
(* Fetcher.GetObjects and Fetcher.fetch, per calling goroutine *)

\* NewFetcher / NewWorker: an empty plan, no call in progress
NewFetcher(cs, f) ==
    /\ callers = cs
    /\ filter = f
    /\ workerList = <<>>
    /\ pc = [p \in cs |-> "idle"]
    /\ stmt = [p \in cs |-> 0]
    /\ start = [p \in cs |-> 0]
    /\ sessionErr = [p \in cs |-> NoError]
    /\ result = [p \in cs |-> NewCFObjects]
    /\ tasks = [p \in cs |-> <<>>]

\* GetObjects: `start := time.Now()`, then fetch: `result := models.NewCFObjects()`
GetObjectsCall(p) ==
    /\ pc[p] = "idle"
    /\ start' = [start EXCEPT ![p] = clock]
    /\ result' = [result EXCEPT ![p] = NewCFObjects]
    /\ pc' = [pc EXCEPT ![p] = "session"]
    /\ UNCHANGED <<collectorVars, clock, filter, workerList, callers, stmt,
                   sessionErr, tasks>>

\* a fetch that drops the early return
SessionFailureIgnored(err) == FALSE

\* `if err != nil` after NewSessionExt
SessionFailed(err) == err # NoError

\* fetch: `session, err := NewSessionExt(c.config)` and the early return
NewSession(p) ==
    /\ pc[p] = "session"
    /\ \E err \in {NoError, SessionError} :
         /\ sessionErr' = [sessionErr EXCEPT ![p] = err]
         /\ IF SessionFailed(err)
            THEN /\ result' = [result EXCEPT ![p].Error = err]
                 /\ pc' = [pc EXCEPT ![p] = "took"]
                 /\ stmt' = stmt
            ELSE /\ result' = result
                 /\ pc' = [pc EXCEPT ![p] = "workInit"]
                 /\ stmt' = [stmt EXCEPT ![p] = 1]
    /\ UNCHANGED <<collectorVars, clock, filter, workerList, callers, start, tasks>>

\* fetch: `c.workInit()`, one statement at a time
WorkInitStep(p) ==
    /\ pc[p] = "workInit"
    /\ LET stmts == StmtsFor(filter) IN
       /\ workerList' = ExecStmt(workerList, filter, stmts[stmt[p]])
       /\ IF stmt[p] = Len(stmts)
          THEN /\ pc' = [pc EXCEPT ![p] = "do"]
               /\ stmt' = stmt
          ELSE /\ pc' = pc
               /\ stmt' = [stmt EXCEPT ![p] = stmt[p] + 1]
    /\ UNCHANGED <<collectorVars, clock, filter, callers, start, sessionErr,
                   result, tasks>>

\* fetch: `c.worker.Do(session, result)` takes up the plan
DoStart(p) ==
    /\ pc[p] = "do"
    /\ tasks' = [tasks EXCEPT ![p] = NewTasks(workerList)]
    /\ pc' = [pc EXCEPT ![p] = "running"]
    /\ UNCHANGED <<collectorVars, clock, filter, workerList, callers, stmt, start,
                   sessionErr, result>>

\* Do: a task whose dependency did not succeed is skipped, never invoked
TaskSkip(p) ==
    /\ pc[p] = "running"
    /\ \E i \in 1..Len(tasks[p]) :
         /\ Eligible(tasks[p], i)
         /\ DepFailed(tasks[p], i)
         /\ tasks' = [tasks EXCEPT ![p][i].state = "skipped"]
    /\ UNCHANGED <<collectorVars, clock, filter, workerList, callers, pc, stmt,
                   start, sessionErr, result>>

\* Do: an eligible task is invoked when the budget allows
TaskStart(p) ==
    /\ pc[p] = "running"
    /\ InFlight(tasks[p]) < Threads
    /\ \E i \in 1..Len(tasks[p]) :
         /\ Eligible(tasks[p], i)
         /\ ~DepFailed(tasks[p], i)
         /\ tasks' = [tasks EXCEPT ![p][i].state = "running", ![p][i].invoked = TRUE]
    /\ UNCHANGED <<collectorVars, clock, filter, workerList, callers, pc, stmt,
                   start, sessionErr, result>>

\* Do: a running fetch function returns nil, having written its category
TaskSucceed(p) ==
    /\ pc[p] = "running"
    /\ \E i \in 1..Len(tasks[p]) :
         /\ tasks[p][i].state = "running"
         /\ tasks' = [tasks EXCEPT ![p][i].state = "ok"]
         /\ result' = [result EXCEPT ![p] = FetchInto(result[p], tasks[p][i].name)]
    /\ UNCHANGED <<collectorVars, clock, filter, workerList, callers, pc, stmt,
                   start, sessionErr>>

\* Do: a running fetch function returns an error
TaskFail(p) ==
    /\ pc[p] = "running"
    /\ \E i \in 1..Len(tasks[p]) :
         /\ tasks[p][i].state = "running"
         /\ tasks' = [tasks EXCEPT ![p][i].state = "failed"]
    /\ UNCHANGED <<collectorVars, clock, filter, workerList, callers, pc, stmt,
                   start, sessionErr, result>>

\* fetch: `result.Error = c.worker.Do(session, result)`
DoReturn(p) ==
    /\ pc[p] = "running"
    /\ AllTerminal(tasks[p])
    /\ result' = [result EXCEPT ![p].Error = AggregateError(tasks[p])]
    /\ pc' = [pc EXCEPT ![p] = "took"]
    /\ UNCHANGED <<collectorVars, clock, filter, workerList, callers, stmt, start,
                   sessionErr, tasks>>

\* `took := time.Since(start).Seconds()`
Since(t) == clock - t

\* GetObjects: `data.Took = took; return data`
GetObjectsReturn(p) ==
    /\ pc[p] = "took"
    /\ result' = [result EXCEPT ![p].Took = Since(start[p])]
    /\ pc' = [pc EXCEPT ![p] = "returned"]
    /\ UNCHANGED <<collectorVars, clock, filter, workerList, callers, stmt, start,
                   sessionErr, tasks>>

\* the snapshot GetObjects returned is handed to MetadataCollector.Collect
CollectResult(p) ==
    /\ pc[p] = "returned"
    /\ calls < MaxCalls
    /\ Collect(result[p])
    /\ pc' = [pc EXCEPT ![p] = "done"]
    /\ UNCHANGED <<clock, filter, workerList, callers, stmt, start, sessionErr,
                   result, tasks>>

\* time passes while a call is in progress
Tick ==
    /\ clock < MaxClock
    /\ \E p \in callers : pc[p] \notin {"idle", "done"}
    /\ clock' = clock + 1
    /\ UNCHANGED <<collectorVars, fetcherVars>>

Next ==
    \/ Tick
    \/ \E p \in callers : GetObjectsCall(p)
    \/ \E p \in callers : NewSession(p)
    \/ \E p \in callers : WorkInitStep(p)
    \/ \E p \in callers : DoStart(p)
    \/ \E p \in callers : TaskSkip(p)
    \/ \E p \in callers : TaskStart(p)
    \/ \E p \in callers : TaskSucceed(p)
    \/ \E p \in callers : TaskFail(p)
    \/ \E p \in callers : DoReturn(p)
    \/ \E p \in callers : GetObjectsReturn(p)
    \/ \E p \in callers : CollectResult(p)

\* SpecFetch: one scrape (GetObjects, then Collect) under each Filter Set over
\* the kinds that govern organizations, spaces and applications, and one kind
\* with an independent task
FetchKinds == {"applications", "organizations", "spaces", "metadata", "domains"}

InitFetch ==
    /\ NewMetadataCollector
    /\ clock = 0
    /\ \E f \in SUBSET FetchKinds : NewFetcher({"c1"}, f)

SpecFetch == InitFetch /\ [][Next]_vars

\* SpecConc: two goroutines call GetObjects on the same Fetcher, followed until
\* worker.Do has taken up the plan (tasks[p] then fixes what the call runs)
ConcFilters == {{}, {"metadata"}, {"applications", "domains"}}

InitConc ==
    /\ NewMetadataCollector
    /\ clock = 0
    /\ \E f \in ConcFilters : NewFetcher({"c1", "c2"}, f)

NextConc ==
    \/ \E p \in callers : GetObjectsCall(p)
    \/ \E p \in callers : NewSession(p)
    \/ \E p \in callers : WorkInitStep(p)
    \/ \E p \in callers : DoStart(p)

SpecConc == InitConc /\ [][NextConc]_vars

-----------------------------------------------------------------------------
(* SpecCollect: a collector scraped MaxCalls times on arbitrary snapshots *)

InitCollect ==
    /\ NewMetadataCollector
    /\ clock = 0
    /\ NewFetcher({}, {})

CollectSnapshot ==
    /\ calls < MaxCalls
    /\ \E o \in Snapshots : Collect(o)
    /\ clock' = clock + 1
    /\ UNCHANGED fetcherVars

NextCollect == CollectSnapshot

SpecCollect == InitCollect /\ [][NextCollect]_vars

-----------------------------------------------------------------------------
(* Claims about MetadataCollector.Collect, checked under SpecCollect *)

CollectCalled == calls' = calls + 1

SamplesOfOrg(sent, g) == {s \in sent : s.labels.organization_id = g}
SamplesOfSpace(sent, g) == {s \in sent : s.labels.space_id = g}
SamplesOfApp(sent, g) == {s \in sent : s.labels.application_id = g}

\* C1: a Collect call on a snapshot whose top-level error is set, whatever calls
\* preceded it, sends no organization, space or application metadata sample,
\* leaves the last-scrape-error gauge at 1 and raises the scrape-error counter by
\* exactly 1.
C1_ErrorSnapshotHealthOnly ==
    [][(CollectCalled /\ objs'.Error # NoError) =>
          /\ ch'.organization = {}
          /\ ch'.space = {}
          /\ ch'.application = {}
          /\ lastMetadataScrapeErrorMetric' = 1
          /\ ch'.last_scrape_error = 1
          /\ metadataScrapeErrorsTotalMetric' = metadataScrapeErrorsTotalMetric + 1]_vars

\* an errored snapshot collected after a call that filled the vectors
C1_Witness ==
    /\ calls = 2
    /\ objs.Error = TaskError
    /\ objs.Organizations # {}
    /\ organizationMetadataMetric # {}
    /\ applicationMetadataMetric # {}
    /\ ch.organization = {}
    /\ lastMetadataScrapeErrorMetric = 1
    /\ metadataScrapeErrorsTotalMetric = 1

\* C2: every Collect call raises the scrape-attempt counter by exactly 1 and sets
\* the duration gauge to the snapshot's Took, with or without a top-level error;
\* without one (the walk then succeeds) the error gauge is 0 after the call and
\* the error counter is unchanged; so error counter <= attempt counter = calls.
C2_AttemptAndDuration ==
    /\ [](/\ metadataScrapesTotalMetric = calls
          /\ metadataScrapeErrorsTotalMetric <= metadataScrapesTotalMetric)
    /\ [][CollectCalled =>
            /\ metadataScrapesTotalMetric' = metadataScrapesTotalMetric + 1
            /\ lastMetadataScrapeDurationSecondsMetric' = objs'.Took
            /\ (objs'.Error = NoError =>
                   /\ lastMetadataScrapeErrorMetric' = 0
                   /\ metadataScrapeErrorsTotalMetric' = metadataScrapeErrorsTotalMetric)]_vars

\* a clean snapshot collected after an errored one with another Took
C2_Witness ==
    /\ calls = 2
    /\ objs.Error = NoError
    /\ objs.Took = 2
    /\ lastMetadataScrapeDurationSecondsMetric = 2
    /\ metadataScrapesTotalMetric = 2
    /\ metadataScrapeErrorsTotalMetric = 1
    /\ lastMetadataScrapeErrorMetric = 0

\* C7: for every application whose space and that space's organization resolve,
\* the application metadata samples sent for it number |app labels| +
\* |org labels| + |space labels|, also when an application label key already
\* starts with "org_" or "space_".
C7_AppSampleCount ==
    (calls >= 1 /\ objs.Error = NoError) =>
        \A app \in objs.Applications :
            LET rs == ResolveSpace(objs, app) IN
            rs.ok =>
                Cardinality(SamplesOfApp(ch.application, app.GUID))
                    = Cardinality(DOMAIN app.Labels)
                      + Cardinality(DOMAIN rs.org.Labels)
                      + Cardinality(DOMAIN rs.space.Labels)

\* C8: a space or application whose ancestors do not resolve yields no sample,
\* every other space and application of the snapshot is rendered, the error
\* gauge stays 0 and the error counter is not incremented.
C8_GapsSkipped ==
    [][(CollectCalled /\ objs'.Error = NoError) =>
          /\ \A space \in objs'.Spaces :
                IF ResolveOrg(objs', space).ok
                THEN Cardinality(SamplesOfSpace(ch'.space, space.GUID))
                        >= Cardinality(DOMAIN space.Labels)
                ELSE SamplesOfSpace(ch'.space, space.GUID) = {}
          /\ \A app \in objs'.Applications :
                IF ResolveSpace(objs', app).ok
                THEN \A key \in DOMAIN app.Labels :
                        \E s \in SamplesOfApp(ch'.application, app.GUID) :
                            s.labels.label_key = key
                ELSE SamplesOfApp(ch'.application, app.GUID) = {}
          /\ lastMetadataScrapeErrorMetric' = 0
          /\ metadataScrapeErrorsTotalMetric' = metadataScrapeErrorsTotalMetric]_vars

\* C9: the organization metadata samples a Collect call sends for a snapshot
\* without top-level error are exactly one per (organization, label key, label
\* value) of that snapshot, each with value 1, whatever calls preceded it.
C9_OrgSamplesOfThisSnapshotOnly ==
    (calls >= 1 /\ objs.Error = NoError) =>
        /\ \A s \in ch.organization : s.value = 1
        /\ {s.labels : s \in ch.organization}
              = UNION {{[organization_id |-> org.GUID, organization_name |-> org.Name,
                         label_key |-> key, label_value |-> org.Labels[key]]
                        : key \in DOMAIN org.Labels} : org \in objs.Organizations}
        /\ \A org \in objs.Organizations :
              Cardinality(SamplesOfOrg(ch.organization, org.GUID))
                  = Cardinality(DOMAIN org.Labels)

-----------------------------------------------------------------------------
(* Claims about Fetcher.fetch and GetObjects, checked under SpecFetch *)

Past(p, places) == pc[p] \in places

PlanNames(ts) == [i \in 1..Len(ts) |-> ts[i].name]

\* C3: a scrape whose session is established but in which a category task fails
\* still sends the metadata samples of the categories that were fetched, with
\* error flag 1.
C3_PartialMetricsOnTaskError ==
    \A p \in callers :
        (pc[p] = "done" /\ sessionErr[p] = NoError /\ result[p].Error = TaskError) =>
            /\ lastMetadataScrapeErrorMetric = 1
            /\ \A org \in result[p].Organizations : \A key \in DOMAIN org.Labels :
                  \E s \in ch.organization :
                      /\ s.labels.organization_id = org.GUID
                      /\ s.labels.label_key = key

\* C4: when session establishment fails, workInit and worker.Do are never
\* reached, the snapshot returned holds no fetched entity and carries the session
\* error, and GetObjects still records the elapsed time in Took.
C4_SessionFailureShortCircuits ==
    /\ [](\A p \in callers :
            (sessionErr[p] # NoError /\ Past(p, {"took", "returned", "done"})) =>
                /\ stmt[p] = 0
                /\ tasks[p] = <<>>
                /\ (callers = {p} => workerList = <<>>)
                /\ result[p].Error = SessionError
                /\ result[p].Organizations = {}
                /\ result[p].Spaces = {}
                /\ result[p].Applications = {})
    /\ [][\A p \in callers :
            (pc[p] = "took" /\ pc'[p] = "returned") =>
                result'[p].Took = clock - start[p]]_vars

\* a failed session under a filter that plans tasks, returned after a second
C4_Witness ==
    \E p \in callers :
        /\ pc[p] = "returned"
        /\ sessionErr[p] = SessionError
        /\ "applications" \in filter
        /\ result[p].Took = 1
        /\ result[p].Error = SessionError

\* C5: the plan workInit builds is closed under the declared dependencies
\* (applications => spaces => organizations, process => applications,
\* org_quotas => organizations, space_quotas => spaces); Applications or Metadata
\* puts organizations and spaces in the plan; "info" is always in the plan.
C5_PlanClosed ==
    \A p \in callers :
        (callers = {p} /\ pc[p] = "do") =>
            LET plan == {workerList[i] : i \in 1..Len(workerList)} IN
            /\ "info" \in plan
            /\ ("applications" \in plan => "spaces" \in plan)
            /\ ("spaces" \in plan => "organizations" \in plan)
            /\ ("process" \in plan => "applications" \in plan)
            /\ ("org_quotas" \in plan => "organizations" \in plan)
            /\ ("space_quotas" \in plan => "spaces" \in plan)
            /\ (("applications" \in filter \/ "metadata" \in filter) =>
                   {"organizations", "spaces"} \subseteq plan)

\* C6: for B depending on A (spaces on organizations, applications on spaces):
\* if A did not succeed B is never invoked and ends skipped; B is invoked only
\* after A completed successfully, with A's index populated; under every
\* interleaving the concurrency budget allows.
C6_DependencyOrder ==
    \A p \in callers :
        LET ts == tasks[p] IN
        /\ Cardinality({i \in 1..Len(ts) : ts[i].state = "running"}) <= Threads
        /\ \A i, j \in 1..Len(ts) :
              (<<ts[j].name, ts[i].name>> \in
                   {<<"organizations", "spaces">>, <<"spaces", "applications">>}) =>
                  /\ (ts[j].state \in {"failed", "skipped"} => ~ts[i].invoked)
                  /\ (ts[j].state \in {"failed", "skipped"}
                        /\ Past(p, {"took", "returned", "done"})
                          => ts[i].state = "skipped")
                  /\ (ts[i].state = "skipped" => ~ts[i].invoked)
                  /\ (ts[i].invoked =>
                        /\ ts[j].state = "ok"
                        /\ (ts[j].name = "organizations" =>
                              result[p].OrganizationsMap = IndexOf(RemoteOrgs))
                        /\ (ts[j].name = "spaces" =>
                              result[p].SpacesMap = IndexOf(RemoteSpaces)))

\* organizations fetched, spaces invoked after it and failed, applications
\* skipped, while info ran alongside
C6_Witness ==
    \E p \in callers :
        LET ts == tasks[p] IN
        /\ pc[p] = "took"
        /\ \E i, j, k \in 1..Len(ts) :
              /\ ts[i].name = "organizations" /\ ts[i].state = "ok"
              /\ ts[j].name = "spaces" /\ ts[j].state = "failed" /\ ts[j].invoked
              /\ ts[k].name = "applications" /\ ts[k].state = "skipped"
              /\ ~ts[k].invoked
        /\ result[p].OrganizationsMap = IndexOf(RemoteOrgs)
        /\ result[p].Error = TaskError

-----------------------------------------------------------------------------
(* Claim about concurrent GetObjects calls, checked under SpecConc *)

\* C10: each of two concurrent GetObjects calls executes exactly the plan
\* workInit builds for the Filter Set, each task once.
C10_EachCallRunsItsPlan ==
    \A p \in callers :
        (sessionErr[p] = NoError /\ Past(p, {"running", "took", "returned", "done"})) =>
            PlanNames(tasks[p]) = workInit(<<>>, filter)

====
